---- MODULE Spec2Model ----
(***************************************************************************)
(* Circulation model of the library management system: Book (book.py),     *)
(* Member (member.py) and Library (library.py).  Objects are identified by *)
(* small integers (Python compares them by identity); None is 0.           *)
(*                                                                         *)
(* Every call is one step: the program is single-threaded and a call runs  *)
(* to completion (SpecThreads alone runs issue_book statement by statement *)
(* in threads).  A call that is refused only logs, so it is a step that    *)
(* leaves the state as it is.  The code stores the clock's readings and    *)
(* never tests them; the clock advances in the specifications that include *)
(* Tick and stands still in the others.  The queries of Library return a   *)
(* value and assign nothing; a list is a sequence, a dict the sequence of  *)
(* its items in insertion order, a str the sequence of its characters.     *)
(***************************************************************************)
EXTENDS Integers, Sequences, FiniteSets, TLC

\* ---- bounds of the model ----
NumBooks == 3
NumMembers == 2
MaxClock == 2
MaxCatalog == 2
MaxRegistered == 1
MaxShelf == 3
MaxKeyword == 2
MaxCycles == 2
MaxId == 2

\* ---- program constants ----
None == 0
MAX_BORROW_LIMIT == 2

Book == 1..NumBooks
Member == 1..NumMembers

VARIABLES
    is_available,    \* Book.is_available, per book
    borrowed_at,     \* Book.borrowed_at, per book (None or a timestamp)
    borrowed_by,     \* Book.borrowed_by, per book (None or a member)
    returned_at,     \* Book.returned_at, per book
    returned_by,     \* Book.returned_by, per book
    borrowed_books,  \* Member.borrowed_books, per member (a list of books)
    books,           \* Library.books (a list, duplicates allowed)
    members,         \* Library.members (a list, duplicates allowed)
    now,             \* the last value datetime.now() returned
    result,          \* the value the last call of Book, Member or of a lending
                     \* method of Library returned
    trip,            \* the round trip a client is running, with the member's
                     \* borrowed_books as they were when it started
    answer,          \* the last query made of the library and what it returned
    created,         \* the last Book(...) or Member(...) call: its arguments and
                     \* the object it made or the exception it raised
    seen,            \* what a client noted of one book after each of its calls
    calls,           \* the issue_book calls under way in threads, each with the
                     \* line it has reached
    demo             \* the sample run of main.py: the number of its next call

bookVars == <<is_available, borrowed_at, borrowed_by, returned_at, returned_by>>
catalogVars == <<books, members>>
Idle == [phase |-> "idle", book |-> None, member |-> None, held |-> <<>>]
NoQuery == [call |-> "", value |-> <<>>]
NotCalled == [class |-> ""]
NoCall == [line |-> "", book |-> None, overlapped |-> FALSE]
clientVars == <<created, seen, calls, demo>>
vars == <<is_available, borrowed_at, borrowed_by, returned_at, returned_by,
          borrowed_books, books, members, now, result, trip, answer,
          created, seen, calls, demo>>

\* ---- list helpers (Python list semantics) ----
Range(s) == {s[i] : i \in 1..Len(s)}

\* x in s
In(x, s) == x \in Range(s)

\* index of the first occurrence of x in s (x must occur)
IndexOf(x, s) == CHOOSE i \in 1..Len(s) : s[i] = x /\ \A j \in 1..(i-1) : s[j] # x

\* list.remove(x): drops the first occurrence of x
Remove(s, x) ==
    LET k == IndexOf(x, s)
    IN  [i \in 1..(Len(s)-1) |-> IF i < k THEN s[i] ELSE s[i+1]]

\* time passes between two calls (the clock never goes back)
Tick ==
    /\ now < MaxClock
    /\ now' = now + 1
    /\ UNCHANGED <<is_available, borrowed_at, borrowed_by, returned_at,
                   returned_by, borrowed_books, books, members, result, trip,
                   answer, clientVars>>

\* a call returns res to its caller
Returns(res) == result' = res

\* ---- Book ----

\* bug: the availability test is missing, a second borrow overwrites the first
Book_borrow_overwrites(b, member) ==
    /\ is_available' = [is_available EXCEPT ![b] = FALSE]
    /\ borrowed_at' = [borrowed_at EXCEPT ![b] = now]
    /\ borrowed_by' = [borrowed_by EXCEPT ![b] = member]
    /\ UNCHANGED <<returned_at, returned_by>>

\* bug: a new borrow wipes the record of the last return
Book_borrow_clears_return(b, member) ==
    IF is_available[b]
    THEN /\ is_available' = [is_available EXCEPT ![b] = FALSE]
         /\ borrowed_at' = [borrowed_at EXCEPT ![b] = now]
         /\ borrowed_by' = [borrowed_by EXCEPT ![b] = member]
         /\ returned_at' = [returned_at EXCEPT ![b] = None]
         /\ returned_by' = [returned_by EXCEPT ![b] = None]
    ELSE UNCHANGED bookVars

\* Book.borrow(member): the state change and the value returned
Book_borrow_effect(b, member) ==
    IF is_available[b]
    THEN /\ is_available' = [is_available EXCEPT ![b] = FALSE]
         /\ borrowed_at' = [borrowed_at EXCEPT ![b] = now]
         /\ borrowed_by' = [borrowed_by EXCEPT ![b] = member]
         /\ UNCHANGED <<returned_at, returned_by>>
    ELSE UNCHANGED bookVars

Book_borrow_result(b) == IF is_available[b] THEN "True" ELSE "False"

\* bug: a return wipes the record of the loan it ends
Book_return_book_clears_borrow(b, member) ==
    /\ is_available' = [is_available EXCEPT ![b] = TRUE]
    /\ returned_at' = [returned_at EXCEPT ![b] = now]
    /\ returned_by' = [returned_by EXCEPT ![b] = member]
    /\ borrowed_at' = [borrowed_at EXCEPT ![b] = None]
    /\ borrowed_by' = [borrowed_by EXCEPT ![b] = None]

\* bug: the book checks that the member bringing it back is the borrower
Book_return_book_by_borrower(b, member) ==
    IF borrowed_by[b] = member
    THEN /\ is_available' = [is_available EXCEPT ![b] = TRUE]
         /\ returned_at' = [returned_at EXCEPT ![b] = now]
         /\ returned_by' = [returned_by EXCEPT ![b] = member]
         /\ UNCHANGED <<borrowed_at, borrowed_by>>
    ELSE UNCHANGED bookVars

\* bug: only a book that is out can come back
Book_return_book_if_out(b, member) ==
    IF ~is_available[b]
    THEN /\ is_available' = [is_available EXCEPT ![b] = TRUE]
         /\ returned_at' = [returned_at EXCEPT ![b] = now]
         /\ returned_by' = [returned_by EXCEPT ![b] = member]
         /\ UNCHANGED <<borrowed_at, borrowed_by>>
    ELSE UNCHANGED bookVars

\* Book.return_book(member): unconditional
Book_return_book_effect(b, member) ==
    /\ is_available' = [is_available EXCEPT ![b] = TRUE]
    /\ returned_at' = [returned_at EXCEPT ![b] = now]
    /\ returned_by' = [returned_by EXCEPT ![b] = member]
    /\ UNCHANGED <<borrowed_at, borrowed_by>>

\* Book.is_available_to_borrow()
is_available_to_borrow(b) == is_available[b]

\* datetime.strftime('%Y-%m-%d %H:%M:%S'): the reading of the clock as text
strftime(t) == ToString(t)

\* Member.member_id and Member.name of the members the clients create
\* (Member(1, ...), Member(2, ...), each with a name of its own)
Member_member_id(m) == m
Member_name(m) == "Member " \o ToString(m)

\* what an accessor hands back in place of a record
NoDetails == [details |-> "None"]

\* bug: the details of the last loan are given whether or not the book is out
get_borrow_details_last_loan(b) ==
    IF borrowed_at[b] # None /\ borrowed_by[b] # None
    THEN [borrowed_at |-> strftime(borrowed_at[b]),
          borrowed_by |-> Member_name(borrowed_by[b]),
          borrowed_by_id |-> Member_member_id(borrowed_by[b])]
    ELSE NoDetails

\* Book.get_borrow_details(): a datetime and a Member are truthy, None is not
get_borrow_details(b) ==
    IF ~is_available[b] /\ borrowed_at[b] # None /\ borrowed_by[b] # None
    THEN [borrowed_at |-> strftime(borrowed_at[b]),
          borrowed_by |-> Member_name(borrowed_by[b]),
          borrowed_by_id |-> Member_member_id(borrowed_by[b])]
    ELSE NoDetails

\* Book.get_return_details()
get_return_details(b) ==
    IF is_available[b] /\ returned_at[b] # None /\ returned_by[b] # None
    THEN [returned_at |-> strftime(returned_at[b]),
          returned_by |-> Member_name(returned_by[b]),
          returned_by_id |-> Member_member_id(returned_by[b])]
    ELSE NoDetails

\* ---- Member ----

\* bug: the limit test lets a member at the limit borrow once more
Member_borrow_book_off_by_one(m, b) ==
    IF Len(borrowed_books[m]) <= MAX_BORROW_LIMIT
    THEN IF is_available_to_borrow(b)
         THEN /\ borrowed_books' =
                    [borrowed_books EXCEPT ![m] = Append(borrowed_books[m], b)]
              /\ Book_borrow_effect(b, m)
         ELSE UNCHANGED <<bookVars, borrowed_books>>
    ELSE UNCHANGED <<bookVars, borrowed_books>>

\* bug: the availability test is missing
Member_borrow_book_unchecked(m, b) ==
    IF Len(borrowed_books[m]) < MAX_BORROW_LIMIT
    THEN /\ borrowed_books' =
               [borrowed_books EXCEPT ![m] = Append(borrowed_books[m], b)]
         /\ Book_borrow_effect(b, m)
    ELSE UNCHANGED <<bookVars, borrowed_books>>

\* bug: the member is not passed on to Book.borrow
Member_borrow_book_anonymous(m, b) ==
    IF Len(borrowed_books[m]) < MAX_BORROW_LIMIT
    THEN IF is_available_to_borrow(b)
         THEN /\ borrowed_books' =
                    [borrowed_books EXCEPT ![m] = Append(borrowed_books[m], b)]
              /\ Book_borrow_effect(b, None)
         ELSE UNCHANGED <<bookVars, borrowed_books>>
    ELSE UNCHANGED <<bookVars, borrowed_books>>

\* bug: the book goes on the list but Book.borrow is not called
Member_borrow_book_list_only(m, b) ==
    IF Len(borrowed_books[m]) < MAX_BORROW_LIMIT
    THEN IF is_available_to_borrow(b)
         THEN /\ borrowed_books' =
                    [borrowed_books EXCEPT ![m] = Append(borrowed_books[m], b)]
              /\ UNCHANGED bookVars
         ELSE UNCHANGED <<bookVars, borrowed_books>>
    ELSE UNCHANGED <<bookVars, borrowed_books>>

\* bug: the book is put at the front of the list
Member_borrow_book_prepends(m, b) ==
    IF Len(borrowed_books[m]) < MAX_BORROW_LIMIT
    THEN IF is_available_to_borrow(b)
         THEN /\ borrowed_books' =
                    [borrowed_books EXCEPT ![m] = <<b>> \o borrowed_books[m]]
              /\ Book_borrow_effect(b, m)
         ELSE UNCHANGED <<bookVars, borrowed_books>>
    ELSE UNCHANGED <<bookVars, borrowed_books>>

\* Member.borrow_book(book)
Member_borrow_book_effect(m, b) ==
    IF Len(borrowed_books[m]) < MAX_BORROW_LIMIT
    THEN IF is_available_to_borrow(b)
         THEN /\ borrowed_books' =
                    [borrowed_books EXCEPT ![m] = Append(borrowed_books[m], b)]
              /\ Book_borrow_effect(b, m)
         ELSE UNCHANGED <<bookVars, borrowed_books>>
    ELSE UNCHANGED <<bookVars, borrowed_books>>

\* bug: the book is taken off the list but Book.return_book is not called
Member_return_book_forgets_book(m, b) ==
    IF In(b, borrowed_books[m])
    THEN /\ borrowed_books' =
               [borrowed_books EXCEPT ![m] = Remove(borrowed_books[m], b)]
         /\ UNCHANGED bookVars
    ELSE UNCHANGED <<bookVars, borrowed_books>>

\* bug: Book.return_book is called before the list is looked at
Member_return_book_unchecked(m, b) ==
    /\ borrowed_books' =
          IF In(b, borrowed_books[m])
          THEN [borrowed_books EXCEPT ![m] = Remove(borrowed_books[m], b)]
          ELSE borrowed_books
    /\ Book_return_book_effect(b, m)

\* bug: the oldest loan is dropped from the list, whichever book comes back
Member_return_book_pops_first(m, b) ==
    IF In(b, borrowed_books[m])
    THEN /\ borrowed_books' =
               [borrowed_books EXCEPT ![m] = Tail(borrowed_books[m])]
         /\ Book_return_book_effect(b, m)
    ELSE UNCHANGED <<bookVars, borrowed_books>>

\* Member.return_book(book)
Member_return_book_effect(m, b) ==
    IF In(b, borrowed_books[m])
    THEN /\ borrowed_books' =
               [borrowed_books EXCEPT ![m] = Remove(borrowed_books[m], b)]
         /\ Book_return_book_effect(b, m)
    ELSE UNCHANGED <<bookVars, borrowed_books>>

\* ---- Library ----

\* bug: the catalog is not consulted
Library_issue_book_any_book(b, m) ==
    IF is_available[b]
    THEN Member_borrow_book_effect(m, b)
    ELSE UNCHANGED <<bookVars, borrowed_books>>

\* bug: only a registered member is served
Library_issue_book_registered_only(b, m) ==
    IF In(m, members) /\ In(b, books) /\ is_available[b]
    THEN Member_borrow_book_effect(m, b)
    ELSE UNCHANGED <<bookVars, borrowed_books>>

\* Library.issue_book(book, member)
Library_issue_book_effect(b, m) ==
    IF In(b, books) /\ is_available[b]
    THEN Member_borrow_book_effect(m, b)
    ELSE UNCHANGED <<bookVars, borrowed_books>>

\* bug: only a book of the catalog is taken back
Library_return_book_catalog_only(b, m) ==
    IF In(b, books) /\ In(b, borrowed_books[m])
    THEN Member_return_book_effect(m, b)
    ELSE UNCHANGED <<bookVars, borrowed_books>>

\* Library.return_book(book, member)
Library_return_book_effect(b, m) ==
    IF In(b, borrowed_books[m])
    THEN Member_return_book_effect(m, b)
    ELSE UNCHANGED <<bookVars, borrowed_books>>

\* ---- the books the clients create ----
\* Book(1, "The Great Gatsby", "F. Scott Fitzgerald", "Fiction"),
\* Book(2, "To Kill a Mockingbird", "Harper Lee", "Fiction"),
\* Book(3, "The Hobbit", "J.R.R. Tolkien", "Fantasy"),
\* Book(4, "1984", "George Orwell", "Dystopian"), and round again.
\* A str is the sequence of its characters.
Titles ==
    << <<"T","h","e"," ","G","r","e","a","t"," ","G","a","t","s","b","y">>,
       <<"T","o"," ","K","i","l","l"," ","a"," ",
         "M","o","c","k","i","n","g","b","i","r","d">>,
       <<"T","h","e"," ","H","o","b","b","i","t">>,
       <<"1","9","8","4">> >>
Authors ==
    << <<"F","."," ","S","c","o","t","t"," ",
         "F","i","t","z","g","e","r","a","l","d">>,
       <<"H","a","r","p","e","r"," ","L","e","e">>,
       <<"J",".","R",".","R","."," ","T","o","l","k","i","e","n">>,
       <<"G","e","o","r","g","e"," ","O","r","w","e","l","l">> >>
Genres == <<"Fiction", "Fiction", "Fantasy", "Dystopian">>

Book_title(b) == Titles[((b - 1) % Len(Titles)) + 1]
Book_author(b) == Authors[((b - 1) % Len(Authors)) + 1]
Book_genre(b) == Genres[((b - 1) % Len(Genres)) + 1]

\* ---- str ----
UpperCase == <<"A","B","C","D","E","F","G","H","I","J","K","L","M",
               "N","O","P","Q","R","S","T","U","V","W","X","Y","Z">>
LowerCase == <<"a","b","c","d","e","f","g","h","i","j","k","l","m",
               "n","o","p","q","r","s","t","u","v","w","x","y","z">>

Capitals == {UpperCase[n] : n \in 1..Len(UpperCase)}

\* str.lower(): a capital becomes its small letter, the rest stays
lower(s) ==
    [i \in 1..Len(s) |->
        IF s[i] \in Capitals
        THEN LowerCase[CHOOSE n \in 1..Len(UpperCase) : UpperCase[n] = s[i]]
        ELSE s[i]]

\* book.title.lower() and book.author.lower(), worked out once for each book
TitlesLower == [i \in 1..Len(Titles) |-> lower(Titles[i])]
AuthorsLower == [i \in 1..Len(Authors) |-> lower(Authors[i])]
Book_title_lower(b) == TitlesLower[((b - 1) % Len(Titles)) + 1]
Book_author_lower(b) == AuthorsLower[((b - 1) % Len(Authors)) + 1]

\* str.strip(): without the blanks at both ends
strip(s) ==
    IF \A i \in 1..Len(s) : s[i] = " "
    THEN <<>>
    ELSE LET first == CHOOSE i \in 1..Len(s) :
                          s[i] # " " /\ \A j \in 1..(i-1) : s[j] = " "
             last == CHOOSE i \in 1..Len(s) :
                          s[i] # " " /\ \A j \in (i+1)..Len(s) : s[j] = " "
         IN  SubSeq(s, first, last)

\* k in s, for two str
Contains(k, s) ==
    \E i \in 0..(Len(s) - Len(k)) : SubSeq(s, i + 1, i + Len(k)) = k

\* ---- Library queries ----
\* A list of books is the sequence of the books; a dict is the sequence of
\* its <<key, value>> items in the order the keys were first set.

\* bug: the availability of the books is not looked at
available_books_whole_catalog(genre) ==
    IF genre # ""
    THEN SelectSeq(books, LAMBDA b : Book_genre(b) = genre)
    ELSE books

\* Library.available_books(genre): "" stands for a genre left out (None)
available_books(genre) ==
    IF genre # ""
    THEN SelectSeq(books, LAMBDA b : is_available[b] /\ Book_genre(b) = genre)
    ELSE SelectSeq(books, LAMBDA b : is_available[b])

\* bug: the genre asked for is not looked at
issued_books_any_genre(genre) ==
    SelectSeq(books, LAMBDA b : ~is_available[b])

\* Library.issued_books(genre)
issued_books(genre) ==
    IF genre # ""
    THEN SelectSeq(books, LAMBDA b : ~is_available[b] /\ Book_genre(b) = genre)
    ELSE SelectSeq(books, LAMBDA b : ~is_available[b])

\* Library.members_with_borrowed_books(members): a list is truthy when it is
\* not empty
members_with_borrowed_books(ms) ==
    SelectSeq(ms, LAMBDA m : borrowed_books[m] # <<>>)

\* d.get(key, default)
DictGet(d, key, default) ==
    IF \E i \in 1..Len(d) : d[i][1] = key
    THEN d[CHOOSE i \in 1..Len(d) : d[i][1] = key][2]
    ELSE default

\* d[key] = value
DictSet(d, key, value) ==
    IF \E i \in 1..Len(d) : d[i][1] = key
    THEN [i \in 1..Len(d) |-> IF d[i][1] = key THEN <<key, value>> ELSE d[i]]
    ELSE Append(d, <<key, value>>)

\* the loop of books_count_by_genre over the first n books of the catalog
RECURSIVE count_by_genre(_, _)
count_by_genre(n, check_for_issuance) ==
    IF n = 0
    THEN <<>>
    ELSE LET d == count_by_genre(n - 1, check_for_issuance)
             book == books[n]
         IN  IF ~check_for_issuance
                  \/ (check_for_issuance /\ ~is_available[book])
             THEN DictSet(d, Book_genre(book),
                          DictGet(d, Book_genre(book), 0) + 1)
             ELSE d

\* bug: check_for_issuance is not looked at, every catalog book is counted
books_count_by_genre_whole_catalog(check_for_issuance) ==
    count_by_genre(Len(books), FALSE)

\* Library.books_count_by_genre(check_for_issuance)
books_count_by_genre(check_for_issuance) ==
    count_by_genre(Len(books), check_for_issuance)

\* bug: of the genres that tie only the first is returned
most_popular_genre_first_only ==
    LET d == books_count_by_genre(TRUE)
        max_count == IF d # <<>>
                     THEN CHOOSE c \in {d[i][2] : i \in 1..Len(d)} :
                              \A i \in 1..Len(d) : d[i][2] <= c
                     ELSE 0
        top == SelectSeq(d, LAMBDA item : item[2] = max_count)
    IN  IF top = <<>> THEN <<>> ELSE <<top[1][1]>>

\* Library.most_popular_genre_from_issued_books()
most_popular_genre_from_issued_books ==
    LET d == books_count_by_genre(TRUE)
        max_count == IF d # <<>>
                     THEN CHOOSE c \in {d[i][2] : i \in 1..Len(d)} :
                              \A i \in 1..Len(d) : d[i][2] <= c
                     ELSE 0
        top == SelectSeq(d, LAMBDA item : item[2] = max_count)
    IN  [i \in 1..Len(top) |-> top[i][1]]

\* bug: the keyword is compared as typed, the titles in small letters
search_books_keyword_as_typed(keyword) ==
    IF strip(keyword) = <<>>
    THEN <<>>
    ELSE SelectSeq(books,
                   LAMBDA b : \/ Contains(keyword, Book_title_lower(b))
                              \/ Contains(keyword, Book_author_lower(b)))

\* Library.search_books(keyword): a blank keyword raises ValueError, which is
\* caught, and the search returns []
search_books(keyword) ==
    IF strip(keyword) = <<>>
    THEN <<>>
    ELSE LET k == lower(keyword)
         IN  SelectSeq(books,
                       LAMBDA b : \/ Contains(k, Book_title_lower(b))
                                  \/ Contains(k, Book_author_lower(b)))

\* the attributes a Library object has: the two lists of __init__ and the
\* methods of the class
Library_attributes ==
    {"books", "members", "add_book", "add_books", "remove_book", "add_member",
     "add_members", "remove_member", "display_books", "display_members",
     "issue_book", "return_book", "available_books", "issued_books",
     "members_with_borrowed_books", "search_books", "books_count_by_genre",
     "most_popular_genre_from_issued_books"}

\* library.<name>: Python looks the name up on the object and raises
\* AttributeError, before anything is called, when it is not there
Library_getattr(name) ==
    IF name \in Library_attributes THEN name ELSE "AttributeError"

\* ---- what the four calls hand back ----
\* Each body is wrapped in try / except: the handlers (TypeError or
\* AttributeError, then Exception) log and fall off the end of the function,
\* and so do the branches that refuse, so the caller always gets None.

\* bug: a refusal is raised to the caller instead of being logged
Library_issue_book_raises(b, m) ==
    IF In(b, books) /\ is_available[b] THEN "None" ELSE "ValueError"

Library_issue_book_result(b, m) == "None"

Library_return_book_result(b, m) == "None"

Member_borrow_book_result(m, b) == "None"

Member_return_book_result(m, b) == "None"

\* ---- the constructors ----
\* An argument is a Python value: its type and, for an int, the number, for
\* a str, the characters.  The values below are the ones the clients pass.
IntValue(n) == [type |-> "int", val |-> n]
StrValue(chars) == [type |-> "str", val |-> chars]
\* the str "1", which is not an int
NotAnInt == [type |-> "str", val |-> 1]
\* None, which is not a str
NotAStr == [type |-> "NoneType", val |-> <<>>]

\* isinstance(x, int), isinstance(x, str)
isinstance_int(x) == x.type = "int"
isinstance_str(x) == x.type = "str"

\* what a constructor call comes to: the exception raised, if any, and the
\* object made, if any
NoObject == [object |-> "None"]
Raises(exception) == [raised |-> exception, object |-> NoObject]
Makes(object) == [raised |-> "", object |-> object]

\* bug: Book(0, ...) is let through
Book_init_accepts_zero(book_id, title, author, genre) ==
    IF ~isinstance_int(book_id) \/ book_id.val < 0
    THEN Raises("ValueError")
    ELSE IF ~isinstance_str(title) \/ strip(title.val) = <<>>
    THEN Raises("ValueError")
    ELSE IF ~isinstance_str(author) \/ strip(author.val) = <<>>
    THEN Raises("ValueError")
    ELSE IF ~isinstance_str(genre) \/ strip(genre.val) = <<>>
    THEN Raises("ValueError")
    ELSE Makes([book_id |-> book_id, title |-> title, author |-> author,
                genre |-> genre, is_available |-> TRUE,
                borrowed_at |-> None, borrowed_by |-> None,
                returned_at |-> None, returned_by |-> None])

\* Book.__init__(book_id, title, author, genre): each ValueError is caught
\* and raised again as a ValueError
Book_init(book_id, title, author, genre) ==
    IF ~isinstance_int(book_id) \/ book_id.val <= 0
    THEN Raises("ValueError")
    ELSE IF ~isinstance_str(title) \/ strip(title.val) = <<>>
    THEN Raises("ValueError")
    ELSE IF ~isinstance_str(author) \/ strip(author.val) = <<>>
    THEN Raises("ValueError")
    ELSE IF ~isinstance_str(genre) \/ strip(genre.val) = <<>>
    THEN Raises("ValueError")
    ELSE Makes([book_id |-> book_id, title |-> title, author |-> author,
                genre |-> genre, is_available |-> TRUE,
                borrowed_at |-> None, borrowed_by |-> None,
                returned_at |-> None, returned_by |-> None])

\* bug: a member of age 0 is turned away
Member_init_rejects_age_zero(member_id, name, age, contact_info) ==
    IF ~isinstance_int(member_id) \/ member_id.val <= 0
    THEN Raises("ValueError")
    ELSE IF ~isinstance_str(name) \/ strip(name.val) = <<>>
    THEN Raises("ValueError")
    ELSE IF ~isinstance_int(age) \/ age.val <= 0
    THEN Raises("ValueError")
    ELSE IF ~isinstance_str(contact_info) \/ strip(contact_info.val) = <<>>
    THEN Raises("ValueError")
    ELSE Makes([member_id |-> member_id, name |-> name, age |-> age,
                contact_info |-> contact_info, borrowed_books |-> <<>>])

\* Member.__init__(member_id, name, age, contact_info)
Member_init(member_id, name, age, contact_info) ==
    IF ~isinstance_int(member_id) \/ member_id.val <= 0
    THEN Raises("ValueError")
    ELSE IF ~isinstance_str(name) \/ strip(name.val) = <<>>
    THEN Raises("ValueError")
    ELSE IF ~isinstance_int(age) \/ age.val < 0
    THEN Raises("ValueError")
    ELSE IF ~isinstance_str(contact_info) \/ strip(contact_info.val) = <<>>
    THEN Raises("ValueError")
    ELSE Makes([member_id |-> member_id, name |-> name, age |-> age,
                contact_info |-> contact_info, borrowed_books |-> <<>>])

\* ---- the calls a client can make ----

\* Book(book_id, title, author, genre)
Book_new(book_id, title, author, genre) ==
    /\ created' = [class |-> "Book",
                   args |-> [book_id |-> book_id, title |-> title,
                             author |-> author, genre |-> genre],
                   outcome |-> Book_init(book_id, title, author, genre)]
    /\ UNCHANGED <<bookVars, borrowed_books, catalogVars, now, result, trip,
                   answer, seen, calls, demo>>

\* Member(member_id, name, age, contact_info)
Member_new(member_id, name, age, contact_info) ==
    /\ created' = [class |-> "Member",
                   args |-> [member_id |-> member_id, name |-> name,
                             age |-> age, contact_info |-> contact_info],
                   outcome |-> Member_init(member_id, name, age, contact_info)]
    /\ UNCHANGED <<bookVars, borrowed_books, catalogVars, now, result, trip,
                   answer, seen, calls, demo>>

Library_issue_book(b, m) ==
    /\ Library_issue_book_effect(b, m)
    /\ Returns(Library_issue_book_result(b, m))
    /\ UNCHANGED <<catalogVars, now, trip, answer, clientVars>>

Library_return_book(b, m) ==
    /\ Library_return_book_effect(b, m)
    /\ Returns(Library_return_book_result(b, m))
    /\ UNCHANGED <<catalogVars, now, trip, answer, clientVars>>

Member_borrow_book(m, b) ==
    /\ Member_borrow_book_effect(m, b)
    /\ Returns(Member_borrow_book_result(m, b))
    /\ UNCHANGED <<catalogVars, now, trip, answer, clientVars>>

Member_return_book(m, b) ==
    /\ Member_return_book_effect(m, b)
    /\ Returns(Member_return_book_result(m, b))
    /\ UNCHANGED <<catalogVars, now, trip, answer, clientVars>>

Book_borrow(b, member) ==
    /\ Book_borrow_effect(b, member)
    /\ Returns(Book_borrow_result(b))
    /\ UNCHANGED <<borrowed_books, catalogVars, now, trip, answer, clientVars>>

Book_return_book(b, member) ==
    /\ Book_return_book_effect(b, member)
    /\ Returns("None")
    /\ UNCHANGED <<borrowed_books, catalogVars, now, trip, answer, clientVars>>

\* an object that is neither a Book nor a Member, such as the str that
\* test_library_add_invalid_book hands to add_book
Stranger == -1

\* hasattr(x, 'book_id'), hasattr(x, 'member_id')
has_book_id(x) == x \in Book
has_member_id(x) == x \in Member

\* bug: the object is appended without a look at its attributes
add_book_unchecked(book) ==
    /\ Len(books) < MaxCatalog
    /\ books' = Append(books, book)
    /\ Returns("None")
    /\ UNCHANGED <<bookVars, now, borrowed_books, members, trip, answer, clientVars>>

\* Library.add_book(book): the TypeError raised for an object without book_id
\* is caught and logged
add_book(book) ==
    /\ IF has_book_id(book)
       THEN Len(books) < MaxCatalog /\ books' = Append(books, book)
       ELSE UNCHANGED books
    /\ Returns("None")
    /\ UNCHANGED <<bookVars, now, borrowed_books, members, trip, answer, clientVars>>

\* bug: a book taken out of the catalog is marked as back on the shelf
remove_book_makes_available(b) ==
    /\ books' = IF In(b, books) THEN Remove(books, b) ELSE books
    /\ is_available' = [is_available EXCEPT ![b] = TRUE]
    /\ Returns("None")
    /\ UNCHANGED <<borrowed_at, borrowed_by, returned_at, returned_by, now,
                   borrowed_books, members, trip, answer, clientVars>>

\* bug: the last entry of the book is taken out, not the first
remove_book_last_entry(b) ==
    /\ books' = IF In(b, books)
                THEN LET k == CHOOSE i \in 1..Len(books) :
                                  books[i] = b /\ \A j \in (i+1)..Len(books) : books[j] # b
                     IN  [i \in 1..(Len(books)-1) |->
                             IF i < k THEN books[i] ELSE books[i+1]]
                ELSE books
    /\ Returns("None")
    /\ UNCHANGED <<bookVars, now, borrowed_books, members, trip, answer, clientVars>>

\* Library.remove_book(book)
remove_book(b) ==
    /\ books' = IF In(b, books) THEN Remove(books, b) ELSE books
    /\ Returns("None")
    /\ UNCHANGED <<bookVars, now, borrowed_books, members, trip, answer, clientVars>>

\* Library.add_member(member): the same for an object without member_id
add_member(member) ==
    /\ IF has_member_id(member)
       THEN Len(members) < MaxRegistered /\ members' = Append(members, member)
       ELSE UNCHANGED members
    /\ Returns("None")
    /\ UNCHANGED <<bookVars, now, borrowed_books, books, trip, answer, clientVars>>

\* bug: a member who is taken off the register loses the list of loans
remove_member_drops_loans(m) ==
    /\ members' = IF In(m, members) THEN Remove(members, m) ELSE members
    /\ borrowed_books' = [borrowed_books EXCEPT ![m] = <<>>]
    /\ Returns("None")
    /\ UNCHANGED <<bookVars, now, books, trip, answer, clientVars>>

\* Library.remove_member(member)
remove_member(m) ==
    /\ members' = IF In(m, members) THEN Remove(members, m) ELSE members
    /\ Returns("None")
    /\ UNCHANGED <<bookVars, now, borrowed_books, books, trip, answer, clientVars>>

\* Library.add_books(*books)
add_books(bs) ==
    /\ books' = books \o bs
    /\ Returns("None")
    /\ UNCHANGED <<bookVars, now, borrowed_books, members, trip, answer, clientVars>>

\* a query returns value and leaves the library as it is
Query(call, value) ==
    /\ answer' = [call |-> call, value |-> value]
    /\ UNCHANGED <<bookVars, borrowed_books, books, members, now, result, trip,
                   clientVars>>

Library_available_books(genre) ==
    Query("available_books", available_books(genre))

\* bug: the catalog itself is filtered down to the books that are out
Library_issued_books_in_place(genre) ==
    /\ books' = issued_books(genre)
    /\ answer' = [call |-> "issued_books", value |-> books']
    /\ UNCHANGED <<bookVars, borrowed_books, members, now, result, trip,
                   clientVars>>

Library_issued_books(genre) ==
    Query("issued_books", issued_books(genre))

Library_members_with_borrowed_books(ms) ==
    Query("members_with_borrowed_books", members_with_borrowed_books(ms))

Book_get_borrow_details(b) ==
    Query("get_borrow_details", get_borrow_details(b))

Book_get_return_details(b) ==
    Query("get_return_details", get_return_details(b))

Library_books_count_by_genre(check_for_issuance) ==
    Query("books_count_by_genre", books_count_by_genre(check_for_issuance))

Library_most_popular_genre_from_issued_books ==
    Query("most_popular_genre_from_issued_books",
          most_popular_genre_from_issued_books)

Library_search_books(keyword) ==
    Query("search_books", search_books(keyword))

\* ---- Library.issue_book, statement by statement ----
\* For clients that call issue_book from several threads: the thread of
\* member m runs issue_book(book, m), and calls[m] holds the book and the
\* statement the thread executes next.  A thread can be pre-empted between
\* any two statements.  calls[m].overlapped notes whether another call was
\* under way at some time during this one.

Running == {m \in Member : calls[m].line \notin {"", "done"}}

\* the thread goes on to another line, or returns None to its caller
Goto(m, line) ==
    /\ calls' = [calls EXCEPT ![m].line = line]
    /\ UNCHANGED result

Exit(m) ==
    /\ calls' = [calls EXCEPT ![m].line = "done"]
    /\ Returns("None")

\* the thread of member m enters library.issue_book(b, m)
issue_book_enter(b, m) ==
    /\ calls[m] = NoCall
    /\ calls' = [o \in Member |->
                    IF o = m
                    THEN [line |-> "library.py:72", book |-> b,
                          overlapped |-> Running # {}]
                    ELSE IF o \in Running
                    THEN [calls[o] EXCEPT !.overlapped = TRUE]
                    ELSE calls[o]]
    /\ UNCHANGED <<bookVars, borrowed_books, catalogVars, now, result, trip,
                   answer, created, seen, demo>>

\* library.py:72  if book in self.books and book.is_available:
issue_book_72(m) ==
    /\ calls[m].line = "library.py:72"
    /\ IF In(calls[m].book, books) /\ is_available[calls[m].book]
       THEN Goto(m, "member.py:38")
       ELSE Exit(m)
    /\ UNCHANGED <<bookVars, borrowed_books, catalogVars, now, trip, answer,
                   created, seen, demo>>

\* member.py:38  if len(self.borrowed_books) < Member.MAX_BORROW_LIMIT:
borrow_book_38(m) ==
    /\ calls[m].line = "member.py:38"
    /\ IF Len(borrowed_books[m]) < MAX_BORROW_LIMIT
       THEN Goto(m, "member.py:39")
       ELSE Exit(m)
    /\ UNCHANGED <<bookVars, borrowed_books, catalogVars, now, trip, answer,
                   created, seen, demo>>

\* member.py:39  if book.is_available_to_borrow():
borrow_book_39(m) ==
    /\ calls[m].line = "member.py:39"
    /\ IF is_available_to_borrow(calls[m].book)
       THEN Goto(m, "member.py:40")
       ELSE Exit(m)
    /\ UNCHANGED <<bookVars, borrowed_books, catalogVars, now, trip, answer,
                   created, seen, demo>>

\* member.py:40  self.borrowed_books.append(book)
borrow_book_40(m) ==
    /\ calls[m].line = "member.py:40"
    /\ borrowed_books' =
          [borrowed_books EXCEPT ![m] = Append(borrowed_books[m], calls[m].book)]
    /\ Goto(m, "member.py:41")
    /\ UNCHANGED <<bookVars, catalogVars, now, trip, answer, created, seen,
                   demo>>

\* member.py:41  book.borrow(member=self), up to the test of
\* book.py:35  if self.is_available:
borrow_35(m) ==
    /\ calls[m].line = "member.py:41"
    /\ IF is_available[calls[m].book]
       THEN Goto(m, "book.py:36")
       ELSE Exit(m)
    /\ UNCHANGED <<bookVars, borrowed_books, catalogVars, now, trip, answer,
                   created, seen, demo>>

\* bug: the book is not marked as out
borrow_36_skipped(m) ==
    /\ calls[m].line = "book.py:36"
    /\ Goto(m, "book.py:37")
    /\ UNCHANGED <<bookVars, borrowed_books, catalogVars, now, trip, answer,
                   created, seen, demo>>

\* book.py:36  self.is_available = False
borrow_36(m) ==
    /\ calls[m].line = "book.py:36"
    /\ is_available' = [is_available EXCEPT ![calls[m].book] = FALSE]
    /\ Goto(m, "book.py:37")
    /\ UNCHANGED <<borrowed_at, borrowed_by, returned_at, returned_by,
                   borrowed_books, catalogVars, now, trip, answer, created,
                   seen, demo>>

\* book.py:37  self.borrowed_at = datetime.now()
borrow_37(m) ==
    /\ calls[m].line = "book.py:37"
    /\ borrowed_at' = [borrowed_at EXCEPT ![calls[m].book] = now]
    /\ Goto(m, "book.py:38")
    /\ UNCHANGED <<is_available, borrowed_by, returned_at, returned_by,
                   borrowed_books, catalogVars, now, trip, answer, created,
                   seen, demo>>

\* book.py:38  self.borrowed_by = member, and the returns up to the caller of
\* issue_book
borrow_38(m) ==
    /\ calls[m].line = "book.py:38"
    /\ borrowed_by' = [borrowed_by EXCEPT ![calls[m].book] = m]
    /\ Exit(m)
    /\ UNCHANGED <<is_available, borrowed_at, returned_at, returned_by,
                   borrowed_books, catalogVars, now, trip, answer, created,
                   seen, demo>>

\* ---- specifications ----

\* Library() with freshly created books and members
Init ==
    /\ is_available = [b \in Book |-> TRUE]
    /\ borrowed_at = [b \in Book |-> None]
    /\ borrowed_by = [b \in Book |-> None]
    /\ returned_at = [b \in Book |-> None]
    /\ returned_by = [b \in Book |-> None]
    /\ borrowed_books = [m \in Member |-> <<>>]
    /\ books = <<>>
    /\ members = <<>>
    /\ now = 1
    /\ result = "None"
    /\ trip = Idle
    /\ answer = NoQuery
    /\ created = NotCalled
    /\ seen = <<>>
    /\ calls = [m \in Member |-> NoCall]
    /\ demo = 1

\* the library after library.add_books(book 1, ..., book MaxCatalog): the
\* books after these stay outside the catalog
Stocked ==
    /\ is_available = [b \in Book |-> TRUE]
    /\ borrowed_at = [b \in Book |-> None]
    /\ borrowed_by = [b \in Book |-> None]
    /\ returned_at = [b \in Book |-> None]
    /\ returned_by = [b \in Book |-> None]
    /\ borrowed_books = [m \in Member |-> <<>>]
    /\ books = [i \in 1..(IF MaxCatalog < NumBooks THEN MaxCatalog ELSE NumBooks)
                   |-> i]
    /\ members = <<>>
    /\ now = 1
    /\ result = "None"
    /\ trip = Idle
    /\ answer = NoQuery
    /\ created = NotCalled
    /\ seen = <<>>
    /\ calls = [m \in Member |-> NoCall]
    /\ demo = 1

IssueStep == \E b \in Book, m \in Member : Library_issue_book(b, m)
ReturnStep == \E b \in Book, m \in Member : Library_return_book(b, m)
BorrowStep == \E b \in Book, m \in Member : Member_borrow_book(m, b)
MemberReturnStep == \E b \in Book, m \in Member : Member_return_book(m, b)
AddBookStep == \E book \in Book \cup {Stranger} : add_book(book)
RemoveBookStep == \E b \in Book : remove_book(b)
AddMemberStep == \E member \in Member \cup {Stranger} : add_member(member)
RemoveMemberStep == \E m \in Member : remove_member(m)
\* Book.borrow() with the member left out, on any book
BookBorrowStep == \E b \in Book : Book_borrow(b, None)
\* the calls of a test of one Book object (TestBook's valid_book)
OneBookBorrowStep == \E m \in Member \cup {None} : Book_borrow(1, m)
OneBookReturnStep == \E m \in Member \cup {None} : Book_return_book(1, m)

\* a client issues an available catalog book to a member below capacity and
\* remembers the member's list
RoundTripIssue(b, m) ==
    /\ trip.phase = "idle"
    /\ In(b, books) /\ is_available[b]
    /\ Len(borrowed_books[m]) < MAX_BORROW_LIMIT
    /\ Library_issue_book_effect(b, m)
    /\ Returns(Library_issue_book_result(b, m))
    /\ trip' = [phase |-> "issued", book |-> b, member |-> m,
                held |-> borrowed_books[m]]
    /\ UNCHANGED <<catalogVars, now, answer, clientVars>>

\* ... and returns it right away
RoundTripReturn ==
    /\ trip.phase = "issued"
    /\ Library_return_book_effect(trip.book, trip.member)
    /\ Returns(Library_return_book_result(trip.book, trip.member))
    /\ trip' = [trip EXCEPT !.phase = "returned"]
    /\ UNCHANGED <<catalogVars, now, answer, clientVars>>

\* a client takes a book that is out off the catalog with remove_book ...
RemoveIssued(b) ==
    /\ trip.phase = "idle"
    /\ In(b, books) /\ ~is_available[b] /\ borrowed_by[b] # None
    /\ books' = Remove(books, b)
    /\ Returns("None")
    /\ trip' = [phase |-> "removed", book |-> b, member |-> borrowed_by[b],
                held |-> <<>>]
    /\ UNCHANGED <<bookVars, borrowed_books, members, now, answer, clientVars>>

\* ... the member who has it brings it back through the library ...
ReturnRemoved ==
    /\ trip.phase = "removed"
    /\ Library_return_book_effect(trip.book, trip.member)
    /\ Returns(Library_return_book_result(trip.book, trip.member))
    /\ trip' = [trip EXCEPT !.phase = "returned"]
    /\ UNCHANGED <<catalogVars, now, answer, clientVars>>

\* ... members ask for it, before and after ...
IssueRemoved(m) ==
    /\ trip.phase \in {"returned", "added"}
    /\ Library_issue_book_effect(trip.book, m)
    /\ Returns(Library_issue_book_result(trip.book, m))
    /\ UNCHANGED <<catalogVars, now, trip, answer, clientVars>>

\* ... and the book is added to the catalog again
AddRemoved ==
    /\ trip.phase = "returned"
    /\ Len(books) < MaxCatalog
    /\ books' = Append(books, trip.book)
    /\ Returns("None")
    /\ trip' = [trip EXCEPT !.phase = "added"]
    /\ UNCHANGED <<bookVars, borrowed_books, members, now, answer, clientVars>>

\* a client puts one book through borrow / return cycles and notes, after
\* each call, the member and the time the book has on record for it
NotedBorrow(member) ==
    /\ Len(seen) < 2 * MaxCycles /\ Len(seen) % 2 = 0
    /\ Book_borrow_effect(1, member)
    /\ Returns(Book_borrow_result(1))
    /\ seen' = Append(seen, [by |-> borrowed_by'[1], at |-> borrowed_at'[1]])
    /\ UNCHANGED <<borrowed_books, catalogVars, now, trip, answer, created,
                   calls, demo>>

NotedReturn(member) ==
    /\ Len(seen) < 2 * MaxCycles /\ Len(seen) % 2 = 1
    /\ Book_return_book_effect(1, member)
    /\ Returns("None")
    /\ seen' = Append(seen, [by |-> returned_by'[1], at |-> returned_at'[1]])
    /\ UNCHANGED <<borrowed_books, catalogVars, now, trip, answer, created,
                   calls, demo>>

NotedBorrowStep == \E member \in Member : NotedBorrow(member)
NotedReturnStep == \E member \in Member : NotedReturn(member)

\* ---- the sample run of main.py ----
\* book1 .. book21 and member1 .. member7 of create_sample_data_and_operations
SampleBooks == 1..21
SampleMembers == 1..7

AddBooksCall == [call |-> "add_books", book |-> None, member |-> None]
AddMembersCall == [call |-> "add_members", book |-> None, member |-> None]
IssueCall(b, m) == [call |-> "issue_book", book |-> b, member |-> m]
ReturnCall(b, m) == [call |-> "return_book", book |-> b, member |-> m]

\* the calls create_sample_data_and_operations makes of the library, in order
SampleCalls ==
    <<AddBooksCall, AddMembersCall,
      IssueCall(1, 1), IssueCall(2, 1), IssueCall(3, 2), IssueCall(4, 3),
      IssueCall(5, 4), IssueCall(6, 5), IssueCall(7, 6), IssueCall(8, 6),
      IssueCall(9, 1), IssueCall(10, 2), IssueCall(20, 3), IssueCall(21, 5),
      IssueCall(1, 4), IssueCall(3, 1),
      ReturnCall(1, 1), ReturnCall(3, 2), ReturnCall(5, 4), ReturnCall(10, 2),
      ReturnCall(11, 7), ReturnCall(15, 2)>>

\* the run goes on to its next call
NextCall(call) ==
    /\ demo <= Len(SampleCalls)
    /\ SampleCalls[demo].call = call
    /\ demo' = demo + 1

\* library.add_books(book1, ..., book21)
SampleAddBooks ==
    /\ NextCall("add_books")
    /\ books' = books \o [i \in SampleBooks |-> i]
    /\ Returns("None")
    /\ UNCHANGED <<bookVars, borrowed_books, members, now, trip, answer,
                   created, seen, calls>>

\* library.add_members(member1, ..., member7)
SampleAddMembers ==
    /\ NextCall("add_members")
    /\ members' = members \o [i \in SampleMembers |-> i]
    /\ Returns("None")
    /\ UNCHANGED <<bookVars, borrowed_books, books, now, trip, answer,
                   created, seen, calls>>

\* library.issue_book(book, member)
SampleIssue ==
    /\ NextCall("issue_book")
    /\ Library_issue_book_effect(SampleCalls[demo].book, SampleCalls[demo].member)
    /\ Returns(Library_issue_book_result(SampleCalls[demo].book,
                                         SampleCalls[demo].member))
    /\ UNCHANGED <<catalogVars, now, trip, answer, created, seen, calls>>

\* library.return_book(book, member)
SampleReturn ==
    /\ NextCall("return_book")
    /\ Library_return_book_effect(SampleCalls[demo].book, SampleCalls[demo].member)
    /\ Returns(Library_return_book_result(SampleCalls[demo].book,
                                          SampleCalls[demo].member))
    /\ UNCHANGED <<catalogVars, now, trip, answer, created, seen, calls>>

\* main(): Library(), and the books and members of the sample run
Sample ==
    /\ is_available = [b \in SampleBooks |-> TRUE]
    /\ borrowed_at = [b \in SampleBooks |-> None]
    /\ borrowed_by = [b \in SampleBooks |-> None]
    /\ returned_at = [b \in SampleBooks |-> None]
    /\ returned_by = [b \in SampleBooks |-> None]
    /\ borrowed_books = [m \in SampleMembers |-> <<>>]
    /\ books = <<>>
    /\ members = <<>>
    /\ now = 1
    /\ result = "None"
    /\ trip = Idle
    /\ answer = NoQuery
    /\ created = NotCalled
    /\ seen = <<>>
    /\ calls = [m \in Member |-> NoCall]
    /\ demo = 1

\* the numbers and the texts a client passes to a constructor: the ints from
\* -1 on and a value that is no int; empty, blank and proper strs, with
\* blanks around them or not, and a value that is no str
Numbers == {IntValue(n) : n \in -1..MaxId} \cup {NotAnInt}
Texts == {StrValue(<<>>), StrValue(<<" ">>), StrValue(<<" ", " ">>), StrValue(<<"a">>),
          StrValue(<<" ", "a", " ">>)} \cup {NotAStr}

CreateBookStep ==
    \E book_id \in Numbers, title \in Texts, author \in Texts, genre \in Texts :
        Book_new(book_id, title, author, genre)
CreateMemberStep ==
    \E member_id \in Numbers, name \in Texts, age \in Numbers,
       contact_info \in Texts :
        Member_new(member_id, name, age, contact_info)

RoundTripIssueStep == \E b \in Book, m \in Member : RoundTripIssue(b, m)

\* the genres of the books, and the keywords a client searches for
Genre == Range(Genres)
KeyChars == {"g", "G", " "}
Keywords == UNION {[1..n -> KeyChars] : n \in 0..MaxKeyword}
\* the lists of members a client asks about
MemberLists == UNION {[1..n -> Member] : n \in 0..NumMembers}
\* the lists of books a client stocks an empty library with
Shelves == UNION {[1..n -> Book] : n \in 1..MaxShelf}

StockStep == \E bs \in Shelves : books = <<>> /\ add_books(bs)
AvailableBooksStep == \E genre \in Genre \cup {""} : Library_available_books(genre)
IssuedBooksStep == \E genre \in Genre \cup {""} : Library_issued_books(genre)
CountByGenreStep ==
    \E check_for_issuance \in BOOLEAN :
        Library_books_count_by_genre(check_for_issuance)
MostPopularGenreStep == Library_most_popular_genre_from_issued_books
MembersWithBooksStep ==
    \E ms \in MemberLists : Library_members_with_borrowed_books(ms)
BorrowDetailsStep == \E b \in Book : Book_get_borrow_details(b)
ReturnDetailsStep == \E b \in Book : Book_get_return_details(b)
SearchStep == \E keyword \in Keywords : Library_search_books(keyword)
\* one member's loans through the library
MemberIssueStep == \E b \in Book : Library_issue_book(b, 1)
MemberReturnsStep == \E b \in Book : Library_return_book(b, 1)

\* the calls that lend and take back
Circulation ==
    \/ IssueStep
    \/ ReturnStep
    \/ BorrowStep
    \/ MemberReturnStep

\* clients of Library.issue_book / return_book and Member.borrow_book /
\* return_book, on a library stocked beforehand
SpecCirculation == Stocked /\ [][Circulation]_vars

\* clients that also add and remove catalog books, from an empty library
Next ==
    \/ IssueStep
    \/ ReturnStep
    \/ BorrowStep
    \/ MemberReturnStep
    \/ AddBookStep
    \/ RemoveBookStep

Spec == Init /\ [][Next]_vars

\* ... while time passes
NextClock == Next \/ Tick

SpecClock == Init /\ [][NextClock]_vars

\* ... or while members are registered and removed
NextRegistry == Next \/ AddMemberStep \/ RemoveMemberStep

SpecRegistry == Init /\ [][NextRegistry]_vars

\* clients of the Library alone: they add and remove books and members, and
\* lend to one member and take back
NextCatalog ==
    \/ AddBookStep
    \/ RemoveBookStep
    \/ AddMemberStep
    \/ RemoveMemberStep
    \/ MemberIssueStep
    \/ MemberReturnsStep

SpecCatalog == Init /\ [][NextCatalog]_vars

\* circulation clients that also call Book.borrow() directly
NextBorrow == Circulation \/ BookBorrowStep

SpecBorrow == Stocked /\ [][NextBorrow]_vars

\* clients that lend through the library, return through the library or the
\* member, and also call return_book on one Book object itself
NextDirectReturn ==
    \/ IssueStep
    \/ ReturnStep
    \/ MemberReturnStep
    \/ OneBookReturnStep

SpecDirectReturn == Stocked /\ [][NextDirectReturn]_vars

\* clients of one Book object alone, while time passes
NextBookUnit == OneBookBorrowStep \/ OneBookReturnStep \/ Tick

SpecBookUnit == Init /\ [][NextBookUnit]_vars

\* issue_book calls in threads, one call for each member, on a library
\* stocked beforehand
NextThreads ==
    \/ \E b \in Book, m \in Member : issue_book_enter(b, m)
    \/ \E m \in Member : issue_book_72(m)
    \/ \E m \in Member : borrow_book_38(m)
    \/ \E m \in Member : borrow_book_39(m)
    \/ \E m \in Member : borrow_book_40(m)
    \/ \E m \in Member : borrow_35(m)
    \/ \E m \in Member : borrow_36(m)
    \/ \E m \in Member : borrow_37(m)
    \/ \E m \in Member : borrow_38(m)

SpecThreads == Stocked /\ [][NextThreads]_vars

\* a client calls a constructor
NextCreate ==
    \/ created.class = "" /\ CreateBookStep
    \/ created.class = "" /\ CreateMemberStep

SpecCreate == Init /\ [][NextCreate]_vars

\* borrow / return cycles of one book, while time passes
NextCycles == NotedBorrowStep \/ NotedReturnStep \/ Tick

SpecCycles == Init /\ [][NextCycles]_vars

\* a client stocks the library, lends to a member and then asks one question
\* of the catalog
NextQueries ==
    \/ answer.call = "" /\ StockStep
    \/ answer.call = "" /\ MemberIssueStep
    \/ answer.call = "" /\ MemberReturnsStep
    \/ answer.call = "" /\ AvailableBooksStep
    \/ answer.call = "" /\ IssuedBooksStep
    \/ answer.call = "" /\ CountByGenreStep
    \/ answer.call = "" /\ MostPopularGenreStep
    \/ answer.call = "" /\ SearchStep
    \/ answer.call = "" /\ MembersWithBooksStep
    \/ answer.call = "" /\ BorrowDetailsStep
    \/ answer.call = "" /\ ReturnDetailsStep

SpecQueries == Init /\ [][NextQueries]_vars

\* a client adds and removes books and lends to one member, then removes a
\* book that is out, has it returned and offers it to the members
NextRemoval ==
    \/ trip.phase = "idle" /\ AddBookStep
    \/ trip.phase = "idle" /\ RemoveBookStep
    \/ trip.phase = "idle" /\ MemberIssueStep
    \/ trip.phase = "idle" /\ MemberReturnsStep
    \/ \E b \in Book : RemoveIssued(b)
    \/ ReturnRemoved
    \/ \E m \in Member : IssueRemoved(m)
    \/ AddRemoved

SpecRemoval == Init /\ [][NextRemoval]_vars

\* a client stocks the library with a list of books, duplicates among them,
\* then removes books, adds books and lends to the members
NextShelf ==
    \/ StockStep
    \/ AddBookStep
    \/ RemoveBookStep
    \/ IssueStep
    \/ ReturnStep

SpecShelf == Init /\ [][NextShelf]_vars

\* the sample run, while time passes
NextSample ==
    \/ SampleAddBooks
    \/ SampleAddMembers
    \/ SampleIssue
    \/ SampleReturn
    \/ Tick

SpecSample == Sample /\ [][NextSample]_vars

\* circulation, then one issue_book / return_book pair
NextRoundTrip ==
    \/ trip.phase = "idle" /\ Circulation
    \/ RoundTripIssueStep
    \/ RoundTripReturn

SpecRoundTrip == Stocked /\ [][NextRoundTrip]_vars

\* ---- what a state shows ----

Holders(b) == {m \in Member : In(b, borrowed_books[m])}
Held(m) == Range(borrowed_books[m])
AtLimit(m) == Len(borrowed_books[m]) >= MAX_BORROW_LIMIT
Provenance(b) == <<borrowed_at[b], borrowed_by[b], returned_at[b], returned_by[b]>>
BookState(b) == <<is_available[b], Provenance(b)>>

\* the books and members are those of the clients, or those of the sample run
TypeOK ==
    /\ <<DOMAIN is_available, DOMAIN borrowed_books>>
          \in {<<Book, Member>>, <<SampleBooks, SampleMembers>>}
    /\ is_available \in [DOMAIN is_available -> BOOLEAN]
    /\ borrowed_at \in [DOMAIN is_available -> 0..MaxClock]
    /\ borrowed_by \in [DOMAIN is_available -> DOMAIN borrowed_books \cup {None}]
    /\ returned_at \in [DOMAIN is_available -> 0..MaxClock]
    /\ returned_by \in [DOMAIN is_available -> DOMAIN borrowed_books \cup {None}]
    /\ \A m \in DOMAIN borrowed_books :
          Range(borrowed_books[m]) \subseteq DOMAIN is_available
    /\ Range(books) \subseteq DOMAIN is_available
    /\ Range(members) \subseteq DOMAIN borrowed_books
    /\ demo \in 1..(Len(SampleCalls) + 1)
    /\ now \in 1..MaxClock
    /\ result \in {"None", "True", "False"}
    /\ trip.phase \in {"idle", "issued", "removed", "returned", "added"}
    /\ created.class \in {"", "Book", "Member"}
    /\ \A m \in Member :
          /\ calls[m].book \in Book \cup {None}
          /\ calls[m].line \in {"", "library.py:72", "member.py:38",
                                "member.py:39", "member.py:40", "member.py:41",
                                "book.py:36", "book.py:37", "book.py:38", "done"}
    /\ \A i \in 1..Len(seen) : seen[i].by \in Member \cup {None}
    /\ answer.call \in {"", "available_books", "issued_books",
                       "books_count_by_genre",
                       "most_popular_genre_from_issued_books", "search_books",
                       "members_with_borrowed_books", "get_borrow_details",
                       "get_return_details"}

\* ---- C1 ----
\* C1: after any sequence of Library.issue_book, Library.return_book,
\* Member.borrow_book and Member.return_book calls, a book is available if and
\* only if no member has it in borrowed_books.
C1_AvailableIffNotHeld ==
    \A b \in Book : is_available[b] <=> Holders(b) = {}

\* one book is out, another has been out and is back
C1_Witness ==
    \E b1, b2 \in Book :
        /\ ~is_available[b1] /\ Holders(b1) # {}
        /\ is_available[b2] /\ returned_by[b2] # None /\ Holders(b2) = {}

\* ---- C2 ----
\* C2: no member ever holds more than MAX_BORROW_LIMIT books, and an
\* issue_book or borrow_book for a member who holds MAX_BORROW_LIMIT books
\* changes neither that member's borrowed_books nor the requested book's
\* availability and provenance.
C2_Capacity ==
    /\ [](\A m \in Member : Len(borrowed_books[m]) <= MAX_BORROW_LIMIT)
    /\ [][\A m \in Member, b \in Book :
            (AtLimit(m) /\ (Library_issue_book(b, m) \/ Member_borrow_book(m, b)))
            => /\ borrowed_books'[m] = borrowed_books[m]
               /\ BookState(b)' = BookState(b)]_vars

\* a member at the limit, with a catalog book still available to ask for
C2_Witness ==
    \E m \in Member, b \in Book :
        /\ Len(borrowed_books[m]) = MAX_BORROW_LIMIT
        /\ is_available[b] /\ In(b, books)
        /\ borrowed_by[b] = None

\* ---- C3 ----
\* C3: no book is in the borrowed_books of two members, none is twice in one
\* member's borrowed_books, and an issue_book of a book some member holds
\* changes nothing.
C3_ExclusiveHolding ==
    /\ [](\A b \in Book :
            /\ Cardinality(Holders(b)) <= 1
            /\ \A m \in Member :
                  Cardinality({i \in 1..Len(borrowed_books[m]) :
                                 borrowed_books[m][i] = b}) <= 1)
    /\ [][\A b \in Book, m \in Member :
            (Holders(b) # {} /\ Library_issue_book(b, m))
            => UNCHANGED <<bookVars, borrowed_books, books, members>>]_vars

\* a held catalog book, and another member who could take one more
C3_Witness ==
    \E b \in Book, m1, m2 \in Member :
        /\ m1 # m2
        /\ In(b, borrowed_books[m1]) /\ In(b, books)
        /\ ~AtLimit(m2) /\ ~AtLimit(m1)

\* ---- C4 ----
\* C4: every book in a member's borrowed_books is unavailable and has that
\* member as borrowed_by.
C4_HeldSet ==
    \A m \in Member : \A b \in Held(m) :
        ~is_available[b] /\ borrowed_by[b] = m

\* a book held by its second borrower
C4_Witness ==
    \E m \in Member : \E b \in Held(m) :
        returned_by[b] # None /\ returned_by[b] # m

C6_BorrowTwice ==
    [][\A b \in Book, member \in Member \cup {None} :
          (~is_available[b] /\ Book_borrow(b, member))
          => (result' = "False" /\ BookState(b)' = BookState(b))]_vars

\* a borrow was refused on a book that was taken at an earlier time
C6_Witness ==
    /\ result = "False"
    /\ \E b \in Book : ~is_available[b] /\ borrowed_at[b] < now

\* ---- C7 ----
\* C7: Library.issue_book of an available catalog book to a member below the
\* limit, followed by Library.return_book of it by that member, ends with the
\* book available, the member's borrowed_books as before the issue (so
\* without the book), and returned_by that member.
C7_RoundTrip ==
    trip.phase = "returned" =>
        /\ is_available[trip.book]
        /\ ~In(trip.book, borrowed_books[trip.member])
        /\ borrowed_books[trip.member] = trip.held
        /\ returned_by[trip.book] = trip.member

\* a round trip completed by a member who held another book all along
C7_Witness ==
    /\ trip.phase = "returned"
    /\ trip.held # <<>>

\* ---- C8 ----
\* C8: with a clock that never goes back, a book's borrowed_at and returned_at
\* never decrease from one borrow/return cycle to the next, and each
\* successful borrow / each return records the member it was given.
C8_ProvenanceOrdering ==
    [][\A b \in Book :
          /\ borrowed_at[b] # None =>
                (borrowed_at'[b] # None /\ borrowed_at'[b] >= borrowed_at[b])
          /\ returned_at[b] # None =>
                (returned_at'[b] # None /\ returned_at'[b] >= returned_at[b])
          /\ \A member \in Member \cup {None} :
                /\ (is_available[b] /\ Book_borrow(b, member))
                      => borrowed_by'[b] = member
                /\ Book_return_book(b, member)
                      => returned_by'[b] = member]_vars

\* a second cycle under way: the book came back from one member and went out
\* to another at a later time
C8_Witness ==
    \E b \in Book :
        /\ ~is_available[b]
        /\ returned_at[b] # None /\ returned_by[b] # None
        /\ borrowed_at[b] > returned_at[b]
        /\ borrowed_by[b] \notin {None, returned_by[b]}

\* ---- C9 ----
\* C9: Library.return_book and Member.return_book of a book that is not in
\* the member's borrowed_books change no borrowed_books and no book.
C9_ReturnNotHeld ==
    [][\A b \in Book, m \in Member :
          (~In(b, borrowed_books[m])
             /\ (Library_return_book(b, m) \/ Member_return_book(m, b)))
          => UNCHANGED <<bookVars, borrowed_books>>]_vars

\* member A holds a book that member B, who holds another, could try to return
C9_Witness ==
    \E b \in Book, A, B \in Member :
        /\ A # B
        /\ In(b, borrowed_books[A]) /\ ~In(b, borrowed_books[B])
        /\ borrowed_books[B] # <<>>

\* ---- C10 ----
\* C10: Library.issue_book of a book that is not in library.books, or that is
\* unavailable, changes no book and no borrowed_books.
C10_IssueGuard ==
    [][\A b \in Book, m \in Member :
          (~(In(b, books) /\ is_available[b]) /\ Library_issue_book(b, m))
          => UNCHANGED <<bookVars, borrowed_books>>]_vars

\* an available book outside a non-empty catalog, a member below the limit,
\* and an unavailable book in the catalog
C10_Witness ==
    \E b1, b2 \in Book, m \in Member :
        /\ ~In(b1, books) /\ is_available[b1] /\ ~AtLimit(m)
        /\ In(b2, books) /\ ~is_available[b2]

\* ---- C11 ----
\* C11: every Library.issue_book and Library.return_book call either changes
\* both sides (the book's availability flips and the call's member and time
\* are recorded on it, and the book is appended to / taken off the member's
\* borrowed_books) or changes neither; after the call the book is not in the
\* member's list while available, and was not made unavailable by the call
\* while absent from the list.
C11_BothOrNeither ==
    [][\A b \in Book, m \in Member :
          /\ Library_issue_book(b, m) =>
                /\ \/ /\ borrowed_books'[m] = Append(borrowed_books[m], b)
                      /\ is_available[b] /\ ~is_available'[b]
                      /\ borrowed_by'[b] = m /\ borrowed_at'[b] = now
                   \/ UNCHANGED <<bookVars, borrowed_books>>
                /\ In(b, borrowed_books'[m]) => ~is_available'[b]
                /\ (is_available[b] /\ ~is_available'[b])
                      => In(b, borrowed_books'[m])
          /\ Library_return_book(b, m) =>
                /\ \/ /\ In(b, borrowed_books[m])
                      /\ ~In(b, borrowed_books'[m])
                      /\ Len(borrowed_books'[m]) = Len(borrowed_books[m]) - 1
                      /\ ~is_available[b] /\ is_available'[b]
                      /\ returned_by'[b] = m /\ returned_at'[b] = now
                   \/ UNCHANGED <<bookVars, borrowed_books>>
                /\ In(b, borrowed_books'[m]) => ~is_available'[b]]_vars

\* a member holds one book and has brought another back, with a third book
\* nobody has touched
C11_Witness ==
    \E m \in Member, b1, b2, b3 \in Book :
        /\ In(b1, borrowed_books[m]) /\ borrowed_by[b1] = m
        /\ is_available[b2] /\ returned_by[b2] = m
        /\ is_available[b3] /\ borrowed_by[b3] = None

\* ---- C12 ----
\* C12: in every state, a call of Member.borrow_book on an available book by
\* a member below MAX_BORROW_LIMIT ends with the book appended at the end of
\* borrowed_books, unavailable, and with the member and the time recorded on
\* it; a call of Member.return_book on a held book ends with the book off
\* borrowed_books, available and with the member as returned_by.  This holds
\* again after a full cycle.
C12_BorrowReturn ==
    \A m \in Member, b \in Book :
        /\ (Len(borrowed_books[m]) < MAX_BORROW_LIMIT /\ is_available[b])
           => ENABLED (/\ Member_borrow_book(m, b)
                       /\ borrowed_books'[m] = Append(borrowed_books[m], b)
                       /\ ~is_available'[b]
                       /\ borrowed_by'[b] = m
                       /\ borrowed_at'[b] = now /\ borrowed_at'[b] # None)
        /\ In(b, borrowed_books[m])
           => ENABLED (/\ Member_return_book(m, b)
                       /\ ~In(b, borrowed_books'[m])
                       /\ Len(borrowed_books'[m]) = Len(borrowed_books[m]) - 1
                       /\ is_available'[b]
                       /\ returned_by'[b] = m)

\* a member has a book for the second time, behind another book in the list
C12_Witness ==
    \E m \in Member, b \in Book :
        /\ Len(borrowed_books[m]) = 2 /\ borrowed_books[m][2] = b
        /\ returned_by[b] = m /\ borrowed_by[b] = m
        /\ borrowed_at[b] = now

C14_ReturnUnconditional ==
    \A b \in Book, member \in Member \cup {None} :
        ENABLED (/\ Book_return_book(b, member)
                 /\ is_available'[b]
                 /\ returned_at'[b] = now
                 /\ returned_by'[b] = member
                 /\ borrowed_at'[b] = borrowed_at[b]
                 /\ borrowed_by'[b] = borrowed_by[b])

\* a book brought back, at a later time, by someone other than its borrower
C14_Witness ==
    \E b \in Book :
        /\ is_available[b]
        /\ borrowed_by[b] # None
        /\ returned_by[b] # borrowed_by[b]
        /\ returned_at[b] > borrowed_at[b]

C16_History ==
    trip.phase \in {"issued", "returned"} =>
        /\ \A name \in {"get_book_borrow_details", "get_book_return_details",
                        "get_book_history"} :
              Library_getattr(name) = name
        /\ trip.phase = "issued" =>
              /\ ~is_available[trip.book]
              /\ get_borrow_details(trip.book) # NoDetails
              /\ get_borrow_details(trip.book).borrowed_by_id
                    = Member_member_id(trip.member)
              /\ get_return_details(trip.book) = NoDetails
        /\ trip.phase = "returned" =>
              /\ is_available[trip.book]
              /\ get_return_details(trip.book) # NoDetails
              /\ get_borrow_details(trip.book) = NoDetails

EntriesOfGenre(g, onlyIssued) ==
    {i \in 1..Len(books) :
        Book_genre(books[i]) = g /\ (onlyIssued => ~is_available[books[i]])}

RECURSIVE SumOfCounts(_)
SumOfCounts(d) == IF d = <<>> THEN 0 ELSE d[1][2] + SumOfCounts(Tail(d))

C19_MostPopular ==
    LET r == most_popular_genre_from_issued_books
        out(g) == Cardinality(EntriesOfGenre(g, TRUE))
        most == CHOOSE n \in {out(g) : g \in Genre} :
                    \A g \in Genre : out(g) <= n
    IN  /\ Range(r) = IF most = 0 THEN {}
                      ELSE {g \in Genre : out(g) = most}
        /\ Cardinality(Range(r)) = Len(r)
        /\ (\A i \in 1..Len(books) : is_available[books[i]]) => r = <<>>

\* two genres tie, and a book of one of them has been out and is back
C19_Witness ==
    /\ answer.call = "most_popular_genre_from_issued_books"
    /\ Len(answer.value) = 2
    /\ \E b \in Range(books) :
          /\ is_available[b] /\ returned_by[b] # None
          /\ Book_genre(b) \in Range(answer.value)

\* ---- C20 ----
\* a capital letter with its small letter
CasePairs == {<<UpperCase[n], LowerCase[n]>> : n \in 1..Len(UpperCase)}

\* two characters that are the same letter, whatever their case
SameLetter(c, d) == c = d \/ <<c, d>> \in CasePairs \/ <<d, c>> \in CasePairs

\* the text holds the keyword somewhere, letter case ignored
Mentions(text, keyword) ==
    \E i \in 0..(Len(text) - Len(keyword)) :
        \A j \in 1..Len(keyword) : SameLetter(text[i + j], keyword[j])

Places(available, genre) ==
    {i \in 1..Len(books) :
        /\ is_available[books[i]] = available
        /\ genre # "" => Book_genre(books[i]) = genre}

\* r lists the books at these places of the catalog, in catalog order
ListsPlaces(r, places) ==
    /\ Len(r) = Cardinality(places)
    /\ \A k \in 1..Len(r) :
          \E i \in places :
              /\ Cardinality({j \in places : j <= i}) = k
              /\ r[k] = books[i]

\* C21: available_books(genre) is, in catalog order, the list of the catalog
\* entries that are available and of the genre given, issued_books(genre)
\* that of the entries that are unavailable and of the genre given; with the
\* genre left out they list all available, resp. all unavailable, entries.
C21_Filters ==
    \A genre \in Genre \cup {""} :
        /\ ListsPlaces(available_books(genre), Places(TRUE, genre))
        /\ ListsPlaces(issued_books(genre), Places(FALSE, genre))

\* the client asked for the issued books of a genre while a book of another
\* genre was out too and a book of that genre was on the shelf
C21_Witness ==
    /\ answer.call = "issued_books"
    /\ answer.value # <<>>
    /\ \E b \in Range(books) :
          ~is_available[b] /\ Book_genre(b) # Book_genre(answer.value[1])
    /\ \E b \in Range(books) :
          is_available[b] /\ Book_genre(b) = Book_genre(answer.value[1])

WithoutFirst(t, s, x) ==
    \E i \in 1..Len(s) :
        /\ s[i] = x
        /\ \A j \in 1..(i - 1) : s[j] # x
        /\ t = SubSeq(s, 1, i - 1) \o SubSeq(s, i + 1, Len(s))

\* C23: in every state, remove_book of a book in library.books, resp.
\* remove_member of a member in library.members, takes it out of the list (its
\* first entry, when the list has it more than once); for an object that is
\* not in the list the call leaves the list as it is; every such call
\* returns None and changes no book's availability or provenance, no
\* member's borrowed_books and not the other list.
C23_Removing ==
    /\ [](\A b \in Range(books) :
            ENABLED (/\ remove_book(b)
                     /\ WithoutFirst(books', books, b)))
    /\ [](\A m \in Range(members) :
            ENABLED (/\ remove_member(m)
                     /\ WithoutFirst(members', members, m)))
    /\ [][/\ \A b \in Book :
                remove_book(b) =>
                    /\ ~In(b, books) => books' = books
                    /\ UNCHANGED <<bookVars, borrowed_books, members>>
                    /\ result' = "None"
            /\ \A m \in Member :
                remove_member(m) =>
                    /\ ~In(m, members) => members' = members
                    /\ UNCHANGED <<bookVars, borrowed_books, books>>
                    /\ result' = "None"]_vars

\* a book was taken out of the catalog while a member held it, and the
\* catalog lists another book twice
C23_Witness ==
    /\ \E b \in Book : ~In(b, books) /\ ~is_available[b] /\ Holders(b) # {}
    /\ Len(books) = 2 /\ books[1] = books[2]

\* ---- C24 ----
\* C24: in every state and for any argument (a member or None), a call of
\* Book.borrow on an available book returns True, makes the book unavailable
\* and sets borrowed_at and borrowed_by, leaving returned_at and returned_by as
\* they were; a call of Book.return_book makes the book available and sets
\* returned_at and returned_by, leaving borrowed_at and borrowed_by as they
\* were, so that borrowed_by names the last borrower after the return.  No
\* other book changes.
C24_OnePair ==
    \A b \in Book, member \in Member \cup {None} :
        /\ is_available[b]
           => ENABLED (/\ Book_borrow(b, member)
                       /\ result' = "True"
                       /\ ~is_available'[b]
                       /\ borrowed_at'[b] = now /\ borrowed_by'[b] = member
                       /\ returned_at'[b] = returned_at[b]
                       /\ returned_by'[b] = returned_by[b]
                       /\ \A o \in Book \ {b} : BookState(o)' = BookState(o))
        /\ ENABLED (/\ Book_return_book(b, member)
                    /\ is_available'[b]
                    /\ returned_at'[b] = now /\ returned_by'[b] = member
                    /\ borrowed_at'[b] = borrowed_at[b]
                    /\ borrowed_by'[b] = borrowed_by[b]
                    /\ \A o \in Book \ {b} : BookState(o)' = BookState(o))

\* a member has a book for the second time: the borrow, made at a later time,
\* left the record of the member's return, and that return had left the
\* record of the first borrow
C24_Witness ==
    \E b \in Book :
        /\ ~is_available[b]
        /\ borrowed_by[b] # None /\ returned_by[b] = borrowed_by[b]
        /\ returned_at[b] # None /\ borrowed_at[b] > returned_at[b]

\* ---- C25 ----
\* the queries of Library and Book
Queries ==
    {"available_books", "issued_books", "members_with_borrowed_books",
     "search_books", "books_count_by_genre",
     "most_popular_genre_from_issued_books", "get_borrow_details",
     "get_return_details"}

\* C25: a step in which a client calls available_books, issued_books,
\* members_with_borrowed_books, search_books, books_count_by_genre,
\* most_popular_genre_from_issued_books, get_borrow_details or
\* get_return_details leaves library.books, library.members, every book's
\* availability and provenance and every member's borrowed_books as they
\* were.
C25_ReadOnly ==
    [][(answer' # answer /\ answer'.call \in Queries)
       => UNCHANGED <<books, members, bookVars, borrowed_books>>]_vars

\* a client was told which members hold books while the catalog had a book
\* out and a book that had been out and was back
C25_Witness ==
    /\ answer.call = "members_with_borrowed_books"
    /\ answer.value # <<>>
    /\ \E b1, b2 \in Range(books) :
          /\ ~is_available[b1]
          /\ is_available[b2] /\ returned_by[b2] # None

\* ---- C26 ----
\* C26: every member's borrowed_books is empty at the start, and in every
\* step it either stays as it is, or gains one book at its end in an
\* issue_book / borrow_book call for that member and an available book while
\* the member is below the limit, or loses one book it held in a return_book
\* call of that member for that book; add_book, remove_book, add_member and
\* remove_member leave every borrowed_books as it is.
C26_HeldSetFrame ==
    /\ \A m \in Member : borrowed_books[m] = <<>>
    /\ [][/\ \A m \in Member :
                \/ borrowed_books'[m] = borrowed_books[m]
                \/ \E b \in Book :
                      /\ borrowed_books'[m] = Append(borrowed_books[m], b)
                      /\ is_available[b]
                      /\ Len(borrowed_books[m]) < MAX_BORROW_LIMIT
                      /\ Library_issue_book(b, m) \/ Member_borrow_book(m, b)
                \/ \E b \in Book :
                      /\ In(b, borrowed_books[m])
                      /\ WithoutFirst(borrowed_books'[m], borrowed_books[m], b)
                      /\ Library_return_book(b, m) \/ Member_return_book(m, b)
            /\ (AddBookStep \/ RemoveBookStep \/ AddMemberStep
                   \/ RemoveMemberStep)
               => UNCHANGED borrowed_books]_vars

\* a registered member holds a book that is no longer in the catalog, and a
\* member who is not on the register holds a catalog book
C26_Witness ==
    \E m1, m2 \in Member, b1, b2 \in Book :
        /\ In(m1, members) /\ In(b1, borrowed_books[m1]) /\ ~In(b1, books)
        /\ ~In(m2, members) /\ In(b2, borrowed_books[m2]) /\ In(b2, books)

\* ---- C27 ----
\* C27: after two complete borrow / return cycles of a book, the first by
\* one member and the second by another, the book's fields still hold the
\* member and the times of the first cycle's borrow and return.
C27_History ==
    (/\ Len(seen) >= 4
     /\ seen[2].by = seen[1].by
     /\ seen[4].by = seen[3].by
     /\ seen[3].by # seen[1].by)
    => /\ seen[1].by \in {borrowed_by[1], returned_by[1]}
       /\ seen[1].at \in {borrowed_at[1], returned_at[1]}
       /\ seen[2].by \in {borrowed_by[1], returned_by[1]}
       /\ seen[2].at \in {borrowed_at[1], returned_at[1]}

\* ---- C28 ----
\* what the claims call a positive integer, and an empty or blank text
PositiveInteger(x) == x.type = "int" /\ x.val > 0
Blank(x) == x.type = "str" /\ \A i \in 1..Len(x.val) : x.val[i] = " "
ProperText(x) == x.type = "str" /\ \E i \in 1..Len(x.val) : x.val[i] # " "

\* C28: Book(book_id, title, author, genre) raises ValueError, and makes no
\* object, whenever book_id is not a positive integer (0 and the negative
\* numbers included) or title, author or genre is empty or blank; it raises
\* nothing else; when it raises nothing (as it does for a positive integer
\* and three texts that are not blank) the book made has the arguments as
\* given, is_available true and borrowed_at, borrowed_by, returned_at and
\* returned_by None.
C28_BookCreation ==
    created.class = "Book" =>
        LET a == created.args
            o == created.outcome
        IN  /\ (\/ ~PositiveInteger(a.book_id)
                \/ Blank(a.title) \/ Blank(a.author) \/ Blank(a.genre))
               => (o.raised = "ValueError" /\ o.object = NoObject)
            /\ o.raised \in {"", "ValueError"}
            /\ (/\ PositiveInteger(a.book_id)
                /\ ProperText(a.title) /\ ProperText(a.author)
                /\ ProperText(a.genre))
               => o.raised = ""
            /\ o.raised = ""
               => /\ o.object # NoObject
                  /\ o.object.book_id = a.book_id
                  /\ o.object.title = a.title
                  /\ o.object.author = a.author
                  /\ o.object.genre = a.genre
                  /\ o.object.is_available = TRUE
                  /\ o.object.borrowed_at = None
                  /\ o.object.borrowed_by = None
                  /\ o.object.returned_at = None
                  /\ o.object.returned_by = None

\* Book(0, ...) with a proper title, author and genre was refused
C28_Witness ==
    /\ created.class = "Book"
    /\ created.args.book_id = IntValue(0)
    /\ ProperText(created.args.title)
    /\ ProperText(created.args.author)
    /\ ProperText(created.args.genre)
    /\ created.outcome.raised = "ValueError"

\* ---- C29 ----
\* C29: Member(member_id, name, age, contact_info) raises ValueError, and
\* makes no object, whenever member_id is not a positive integer, name or
\* contact_info is empty or blank, or age is negative; it raises nothing
\* else; for a positive member_id, a name and a contact_info that are not
\* blank and an age of 0 or more it raises nothing, and the member made has
\* the arguments as given and an empty borrowed_books.
C29_MemberCreation ==
    created.class = "Member" =>
        LET a == created.args
            o == created.outcome
        IN  /\ (\/ ~PositiveInteger(a.member_id)
                \/ Blank(a.name) \/ Blank(a.contact_info)
                \/ (a.age.type = "int" /\ a.age.val < 0))
               => (o.raised = "ValueError" /\ o.object = NoObject)
            /\ o.raised \in {"", "ValueError"}
            /\ (/\ PositiveInteger(a.member_id)
                /\ ProperText(a.name) /\ ProperText(a.contact_info)
                /\ a.age.type = "int" /\ a.age.val >= 0)
               => o.raised = ""
            /\ o.raised = ""
               => /\ o.object # NoObject
                  /\ o.object.member_id = a.member_id
                  /\ o.object.name = a.name
                  /\ o.object.age = a.age
                  /\ o.object.contact_info = a.contact_info
                  /\ o.object.borrowed_books = <<>>

\* a member of age 0 was created, with no books
C29_Witness ==
    /\ created.class = "Member"
    /\ created.args.age = IntValue(0)
    /\ created.outcome.raised = ""
    /\ created.outcome.object.borrowed_books = <<>>

\* ---- C30 ----
\* C30: when issue_book calls run in threads and can be pre-empted between
\* statements, a book gets into the borrowed_books of two members only when
\* the two calls were under way at the same time: calls that each run to
\* completion before the next one starts never lead to a book in two lists.
C30_AtomicIssue ==
    \A b \in Book : \A m1, m2 \in Holders(b) :
        m1 # m2 => (calls[m1].overlapped /\ calls[m2].overlapped)

\* two calls for the same available catalog book both passed the tests of
\* availability before either went on: the book is in both members'
\* borrowed_books and borrowed_by names one of them
C30_Witness ==
    \E b \in Book, m1, m2 \in Member :
        /\ m1 # m2
        /\ In(b, books)
        /\ calls[m1].line = "done" /\ calls[m2].line = "done"
        /\ In(b, borrowed_books[m1]) /\ In(b, borrowed_books[m2])
        /\ borrowed_by[b] = m1
        /\ ~is_available[b]

\* ---- C31 ----
\* a book that a member holds although the book reports itself available
Loose(b) == is_available[b] /\ Holders(b) # {}
\* a book that two members hold
Shared(b) == \E m1, m2 \in Holders(b) : m1 # m2
\* a book that is twice in the borrowed_books of one member
Doubled(b) ==
    \E m \in Member : \E i, j \in 1..Len(borrowed_books[m]) :
        i # j /\ borrowed_books[m][i] = b /\ borrowed_books[m][j] = b
\* the book and the lists of the members disagree in one of these ways
Astray(b) == Loose(b) \/ Shared(b) \/ Doubled(b)

\* C31: the check that the returner holds the book is made by Member and
\* Library, not by Book.  Book.return_book called on a book that member A
\* holds, for whichever member, leaves the book available and still in A's
\* borrowed_books; if the book is in the catalog, Library.issue_book of it to
\* a member B below the limit then succeeds and the book is in both lists.
\* Returns made through Member.return_book or Library.return_book never lead
\* there: a step that first makes a book available while held, held by two
\* members or held twice by one is a call of Book.return_book on that book,
\* and a book comes to be held by two members only when it was available
\* while held.
C31_HolderCheck ==
    /\ [](\A b \in Book : \A a \in Holders(b) : \A member \in Member \cup {None} :
            ENABLED (/\ Book_return_book(b, member)
                     /\ is_available'[b]
                     /\ In(b, borrowed_books'[a])))
    /\ [](\A b \in Book : \A a \in Holders(b) : \A m \in Member :
            (/\ m # a /\ is_available[b] /\ In(b, books)
             /\ Len(borrowed_books[m]) < MAX_BORROW_LIMIT)
            => ENABLED (/\ Library_issue_book(b, m)
                        /\ ~is_available'[b]
                        /\ In(b, borrowed_books'[a])
                        /\ In(b, borrowed_books'[m])))
    /\ [][\A b \in Book :
            /\ (Astray(b)' /\ ~Astray(b)) =>
                  \E member \in Member \cup {None} : Book_return_book(b, member)
            /\ (Shared(b)' /\ ~Shared(b)) => Loose(b)]_vars

\* member 1 holds book 1, Book.return_book was called on it for member 2, and
\* the library then issued it to member 2: both hold it
C31_Witness ==
    /\ In(1, borrowed_books[1]) /\ In(1, borrowed_books[2])
    /\ returned_by[1] = 2
    /\ borrowed_by[1] = 2
    /\ ~is_available[1]

\* ---- C32 ----
\* book b is out with member m
Out(b, m) ==
    ~is_available[b] /\ In(b, borrowed_books[m]) /\ borrowed_by[b] = m

\* C32: a successful Library.issue_book(b, m) leaves b unavailable, in
\* m.borrowed_books and with borrowed_by = m, and b stays so, with borrowed_at
\* as it is, through every step that is not m returning b: issues and returns
\* for other members or of other books, adding and removing catalog books and
\* the passing of time leave b with m.
C32_HeldUntilReturned ==
    [][\A b \in Book : \A m \in Member :
        /\ (/\ In(b, books) /\ is_available[b]
            /\ Len(borrowed_books[m]) < MAX_BORROW_LIMIT
            /\ Library_issue_book(b, m)) => Out(b, m)'
        /\ (/\ Out(b, m)
            /\ ~Library_return_book(b, m)
            /\ ~Member_return_book(m, b))
           => (Out(b, m)' /\ borrowed_at'[b] = borrowed_at[b])]_vars

\* book 1 has been out with member 1 since an earlier reading of the clock and
\* is no longer in the catalog, while member 2 has borrowed another book
C32_Witness ==
    /\ Out(1, 1)
    /\ borrowed_at[1] < now
    /\ ~In(1, books)
    /\ \E b \in Book : b # 1 /\ Out(b, 2) /\ borrowed_at[b] > borrowed_at[1]

\* ---- C33 ----
\* C33: Library.issue_book and Library.return_book do not consult
\* library.members.  Whether or not m is registered, issue_book(b, m) lends a
\* catalog book that is available to a member below the limit and is refused
\* otherwise, and return_book(b, m) takes back a book that m lists and is
\* refused otherwise; neither changes library.members.
C33_NoRegistration ==
    \A b \in Book : \A m \in Member :
        /\ IF /\ In(b, books) /\ is_available[b]
              /\ Len(borrowed_books[m]) < MAX_BORROW_LIMIT
           THEN ENABLED (/\ Library_issue_book(b, m)
                         /\ borrowed_books'[m] = Append(borrowed_books[m], b)
                         /\ ~is_available'[b] /\ borrowed_by'[b] = m
                         /\ members' = members)
           ELSE ENABLED (/\ Library_issue_book(b, m)
                         /\ UNCHANGED <<bookVars, borrowed_books, catalogVars>>)
        /\ IF In(b, borrowed_books[m])
           THEN ENABLED (/\ Library_return_book(b, m)
                         /\ borrowed_books'[m] = Remove(borrowed_books[m], b)
                         /\ is_available'[b] /\ returned_by'[b] = m
                         /\ members' = members)
           ELSE ENABLED (/\ Library_return_book(b, m)
                         /\ UNCHANGED <<bookVars, borrowed_books, catalogVars>>)

\* a member who is not registered holds a catalog book, after having returned
\* another
C33_Witness ==
    /\ ~In(1, members)
    /\ \E b \in Book : In(b, books) /\ Out(b, 1)
    /\ \E b \in Book : returned_by[b] = 1 /\ is_available[b]

\* ---- C34 ----
\* C34: removing a book that is out from the catalog does not release it:
\* after remove_book(b) the book is still unavailable and in its holder's
\* borrowed_books; the holder's Library.return_book(b, holder) still succeeds
\* and makes b available; after that issue_book(b, m) is refused for every
\* member m until b is added to the catalog again.
C34_Removal ==
    /\ [](trip.phase = "removed" =>
            /\ ~is_available[trip.book]
            /\ In(trip.book, borrowed_books[trip.member])
            /\ ENABLED (/\ ReturnRemoved
                        /\ is_available'[trip.book]
                        /\ ~In(trip.book, borrowed_books'[trip.member])))
    /\ [][\A m \in Member :
            (trip.phase = "returned" /\ IssueRemoved(m))
            => UNCHANGED <<bookVars, borrowed_books>>]_vars

\* C34 as the code has it: the same, with issue_book refused after the return
\* for as long as b is not in the catalog.  remove_book takes out one entry,
\* so a book that was added twice is still listed: it is issued again to a
\* member below the limit, as is a book that was added again.
C34_RemovalAmended ==
    /\ [](trip.phase = "removed" =>
            /\ ~is_available[trip.book]
            /\ In(trip.book, borrowed_books[trip.member])
            /\ ENABLED (/\ ReturnRemoved
                        /\ is_available'[trip.book]
                        /\ ~In(trip.book, borrowed_books'[trip.member])))
    /\ [][\A m \in Member :
            (/\ trip.phase = "returned"
             /\ ~In(trip.book, books)
             /\ IssueRemoved(m))
            => UNCHANGED <<bookVars, borrowed_books>>]_vars
    /\ [](\A m \in Member :
            (/\ trip.phase \in {"returned", "added"}
             /\ In(trip.book, books) /\ is_available[trip.book]
             /\ Len(borrowed_books[m]) < MAX_BORROW_LIMIT)
            => ENABLED (IssueRemoved(m) /\ Out(trip.book, m)'))

\* the book was removed while out and its holder has brought it back: it is
\* available and in no list, and not in the catalog
C34_Witness ==
    /\ trip.phase = "returned"
    /\ ~In(trip.book, books)
    /\ is_available[trip.book]
    /\ returned_by[trip.book] = trip.member
    /\ Holders(trip.book) = {}

\* ---- C35 ----
\* the number of entries of x in the list s
Copies(x, s) == Cardinality({i \in 1..Len(s) : s[i] = x})

\* C35: the catalog allows duplicates.  add_book of a book that is listed
\* appends one more entry; available_books() / issued_books() list a book as
\* often as the catalog does and books_count_by_genre counts every entry;
\* remove_book of a book listed more than once takes out its first entry and
\* leaves the book in the catalog, where it can still be issued; and with
\* duplicates in the catalog a book is available iff no member holds it, no
\* two members hold it, no member lists it twice and no member is over the
\* limit.
C35_Duplicates ==
    /\ \A b \in Book :
          /\ (In(b, books) /\ Len(books) < MaxCatalog) =>
                ENABLED (/\ add_book(b)
                         /\ books' = Append(books, b)
                         /\ Copies(b, books') = Copies(b, books) + 1)
          /\ Copies(b, available_books("")) =
                (IF is_available[b] THEN Copies(b, books) ELSE 0)
          /\ Copies(b, issued_books("")) =
                (IF is_available[b] THEN 0 ELSE Copies(b, books))
          /\ In(b, books) =>
                /\ DictGet(books_count_by_genre(FALSE), Book_genre(b), 0)
                     = Cardinality(EntriesOfGenre(Book_genre(b), FALSE))
                /\ DictGet(books_count_by_genre(TRUE), Book_genre(b), 0)
                     = Cardinality(EntriesOfGenre(Book_genre(b), TRUE))
          /\ Copies(b, books) >= 2 =>
                ENABLED (/\ remove_book(b)
                         /\ WithoutFirst(books', books, b)
                         /\ Copies(b, books') = Copies(b, books) - 1
                         /\ In(b, books'))
          /\ \A m \in Member :
                (/\ In(b, books) /\ is_available[b]
                 /\ Len(borrowed_books[m]) < MAX_BORROW_LIMIT)
                => ENABLED (Library_issue_book(b, m) /\ Out(b, m)')
          /\ is_available[b] <=> Holders(b) = {}
          /\ Cardinality(Holders(b)) <= 1
          /\ \A m \in Member : Copies(b, borrowed_books[m]) <= 1
    /\ \A m \in Member : Len(borrowed_books[m]) <= MAX_BORROW_LIMIT

\* a book with two entries around another book's entry is out with member 1
\* while member 2 holds the other book
C35_Witness ==
    \E b1, b2 \in Book :
        /\ b1 # b2
        /\ books = <<b1, b2, b1>>
        /\ Out(b1, 1) /\ Out(b2, 2)

\* ---- C36 ----
\* the entries of list s at the places in I, in the order of s, among its
\* first n
RECURSIVE Pick(_, _, _)
Pick(s, I, n) ==
    IF n = 0
    THEN <<>>
    ELSE IF n \in I
         THEN Append(Pick(s, I, n - 1), s[n])
         ELSE Pick(s, I, n - 1)

\* the entries of the members' borrowed_books that are catalog books
HeldCatalogEntries ==
    {p \in Member \X (1..MAX_BORROW_LIMIT) :
        /\ p[2] <= Len(borrowed_books[p[1]])
        /\ In(borrowed_books[p[1]][p[2]], books)}

\* C36: available_books() and issued_books() without a genre have no book in
\* common and split the catalog between them: each is the list of the catalog
\* entries that are available, resp. unavailable, in catalog order, every entry
\* is in exactly one of them, and the two lengths add up to len(books).  When
\* no book is listed twice and lending goes through the library,
\* len(issued_books()) is the number of catalog books in the members'
\* borrowed_books.
C36_Partition ==
    LET available == available_books("")
        issued == issued_books("")
        places == 1..Len(books)
    IN  /\ Range(available) \cap Range(issued) = {}
        /\ available = Pick(books, {i \in places : is_available[books[i]]},
                            Len(books))
        /\ issued = Pick(books, {i \in places : ~is_available[books[i]]},
                         Len(books))
        /\ \A b \in Book :
              Copies(b, available) + Copies(b, issued) = Copies(b, books)
        /\ Len(available) + Len(issued) = Len(books)
        /\ (\A b \in Book : Copies(b, books) <= 1) =>
              Len(issued) = Cardinality(HeldCatalogEntries)

\* three different books in the catalog: the first and the last are out with
\* two members, the one between them is on the shelf
C36_Witness ==
    /\ Len(books) = 3
    /\ \A b \in Book : Copies(b, books) <= 1
    /\ Out(books[1], 1) /\ is_available[books[2]] /\ Out(books[3], 2)
    /\ issued_books("") = <<books[1], books[3]>>

\* ---- C37 ----
\* the list s without the entries of book b
Others(s, b) == SelectSeq(s, LAMBDA x : x # b)

\* C37: Library.issue_book(b, m) and Library.return_book(b, m), whether they
\* succeed or are refused, change at most book b and member m: the
\* availability and the provenance of every other book, the borrowed_books of
\* every other member, library.books and library.members stay as they are,
\* and the other books in m.borrowed_books keep their order.  (For every b
\* and m: the frame holds of the step, or the step is neither call.)
C37_Frame ==
    [][\A b \in Book : \A m \in Member :
        \/ /\ \A b2 \in Book \ {b} : BookState(b2)' = BookState(b2)
           /\ \A m2 \in Member \ {m} : borrowed_books'[m2] = borrowed_books[m2]
           /\ UNCHANGED catalogVars
           /\ Others(borrowed_books'[m], b) = Others(borrowed_books[m], b)
        \/ ~(Library_issue_book(b, m) \/ Library_return_book(b, m))]_vars

\* member 1 has returned the first of two books and kept the second, while
\* member 2 holds a book of their own
C37_Witness ==
    \E b1, b2, b3 \in Book :
        /\ b1 # b2 /\ b3 \notin {b1, b2}
        /\ borrowed_books[1] = <<b2>>
        /\ returned_by[b1] = 1 /\ is_available[b1]
        /\ borrowed_books[2] = <<b3>>

\* ---- C38 ----
\* C38: with lending and returning through Library and Member and a clock
\* that never goes back, a book with returned_at set has borrowed_at set; if
\* it is available, the return on record is not earlier than the borrow on
\* record and was made by the borrower on record; if it is unavailable, the
\* borrow on record is not earlier than the return on record.
C38_WithinCycle ==
    \A b \in Book :
        returned_at[b] # None =>
            /\ borrowed_at[b] # None
            /\ is_available[b] =>
                  /\ returned_at[b] >= borrowed_at[b]
                  /\ returned_by[b] = borrowed_by[b]
            /\ ~is_available[b] => borrowed_at[b] >= returned_at[b]

\* one book came back later than it went out; another went out again, to
\* another member, later than it came back
C38_Witness ==
    \E b1, b2 \in Book :
        /\ is_available[b1] /\ returned_at[b1] > borrowed_at[b1]
        /\ borrowed_at[b1] # None
        /\ ~is_available[b2] /\ returned_at[b2] # None
        /\ borrowed_at[b2] > returned_at[b2]
        /\ borrowed_by[b2] # returned_by[b2]

\* ---- C39 ----
\* C39: when the calls of create_sample_data_and_operations have been made
\* (21 books, 7 members, twelve issue_book calls, two more for books that are
\* out, four returns by the holders and two by members who do not hold the
\* book, with MAX_BORROW_LIMIT = 2), issued_books() lists 7 books and
\* available_books() lists 14.
C39_SampleRun ==
    demo > Len(SampleCalls) =>
        /\ Len(issued_books("")) = 7
        /\ Len(available_books("")) = 14

\* the run is over: member1 was refused a third book and has returned the
\* first, member2 has returned both books
C39_Witness ==
    /\ demo = Len(SampleCalls) + 1
    /\ Len(books) = 21 /\ Len(members) = 7
    /\ borrowed_books[1] = <<2>>
    /\ borrowed_books[2] = <<>>
    /\ is_available[9] /\ borrowed_at[9] = None
    /\ returned_by[10] = 2
====
